---- MODULE Spec2Model ----
(***************************************************************************)
(* State-machine model of src/monitor.py: the stock monitor's product      *)
(* store (ProductTracker), the per-URL poll fetch_and_parse_products with  *)
(* its channel calls (send_telegram_message, edit_or_skip_message) and the *)
(* scheduler periodic_task.  One action is one stretch of a coroutine      *)
(* between two awaits: asyncio runs such a stretch without interleaving.   *)
(***************************************************************************)
EXTENDS Integers, Sequences, FiniteSets, TLC

\* ------------------------------------------------------------------ bounds
\* Telegram message ids handed out in one behaviour (a successful send takes one).
MaxMsg == 2

\* ------------------------------------------------------- program constants
\* MAX_RETRIES = int(os.getenv('MAX_RETRIES', 1))
MAX_RETRIES == 1

\* TELEGRAM_CHAT_IDS, as configured in the environment: two chats.
TELEGRAM_CHAT_IDS == <<"c1", "c2">>
Channels == {TELEGRAM_CHAT_IDS[i] : i \in 1..Len(TELEGRAM_CHAT_IDS)}

\* The monitored URLs config.json lists: one product page, whose URL carries pid=1.
Sources == {"u1"}
\* What load_config can return here.
ConfigLists == {<<"u1">>}
\* load_config returns the list as written: a URL listed twice stays twice.
DupLists == {<<"u1", "u1">>}
\* periodic_task builds one coroutine per listed URL: the slots of the longest list.
Tasks ==
  DOMAIN (CHOOSE urls \in ConfigLists \cup DupLists :
            \A other \in ConfigLists \cup DupLists : Len(other) <= Len(urls))

\* re.search(r'pid=(\d+)', url): the name given to a product seen out of stock.
OosName(url) == IF url = "u1" THEN "PID 1" ELSE "Unknown"
\* price = "价格未知", features = "配置未知" of an out-of-stock page.
PriceUnknown == "price-unknown"
FeaturesUnknown == "features-unknown"

\* What a page can show: the errorbox "Out of Stock", no cartbox at all, or a
\* product (name after the prefix strip, billing-cycle text, filtered features).
\* The pages of u1 sell product X at one of two prices, or show a product whose
\* <strong> name is the out-of-stock name itself.
Prices == {"A", "B"}
FeatureTexts == {"F"}
OosPage == [kind |-> "oos", name |-> "", price |-> "", features |-> ""]
NoCartPage == [kind |-> "nocart", name |-> "", price |-> "", features |-> ""]
StockPages(url) ==
  {[kind |-> "stock", name |-> "X", price |-> p, features |-> f] :
     p \in Prices, f \in FeatureTexts}
  \cup {[kind |-> "stock", name |-> OosName(url), price |-> "A", features |-> "F"]}
Pages(url) == {OosPage, NoCartPage} \cup StockPages(url)
NoPage == [kind |-> "none", name |-> "", price |-> "", features |-> ""]

\* ------------------------------------------------------------ store values
\* A record without the "message_ids" key (dict.get gives None).
None == [none |-> 0]
\* get_product's None.
NoRec == [absent |-> TRUE]
EmptyMap == [c \in {} |-> 0]

make_product_key(source, name) == <<source, name>>

\* full_link: the URL rewritten to the affiliate link; a function of the URL.
FullLink(url) == <<url, "aff">>

\* The handle test that never finds a handle.
TruthyNever(ids) == FALSE

\* `"message_ids" in rec and rec["message_ids"]`
Truthy(ids) == ids # None /\ DOMAIN ids # {}

Restrict(f, S) == [x \in S |-> f[x]]

\* ProductTracker.get_product
get_product(inv, key) == IF key \in DOMAIN inv THEN inv[key] ELSE NoRec

\* The dict built with the price and features of the record already stored.
UpdatedRecordKeepsSignatures(inv, key, price, features, link, out_of_stock, message_ids) ==
  [price |-> IF key \in DOMAIN inv THEN inv[key].price ELSE price,
   features |-> IF key \in DOMAIN inv THEN inv[key].features ELSE features,
   link |-> link, out_of_stock |-> out_of_stock,
   message_ids |->
     IF message_ids # None THEN message_ids
     ELSE IF key \in DOMAIN inv /\ inv[key].message_ids # None
          THEN inv[key].message_ids
          ELSE None]

\* The dict ProductTracker.update_product builds and stores under key.
UpdatedRecord(inv, key, price, features, link, out_of_stock, message_ids) ==
  [price |-> price, features |-> features, link |-> link,
   out_of_stock |-> out_of_stock,
   message_ids |->
     IF message_ids # None THEN message_ids
     ELSE IF key \in DOMAIN inv /\ inv[key].message_ids # None
          THEN inv[key].message_ids
          ELSE None]

\* self.inventory[key] = data
update_product(inv, key, price, features, link, out_of_stock, message_ids) ==
  [k \in DOMAIN inv \cup {key} |->
     IF k = key
     THEN UpdatedRecord(inv, key, price, features, link, out_of_stock, message_ids)
     ELSE inv[k]]

\* A dict keeps insertion order: a new key goes last, a known key keeps its place.
KeyOrder(ord, inv, key) == IF key \in DOMAIN inv THEN ord ELSE Append(ord, key)

\* The state file. json.dump into open(path, "w"): the file is truncated first,
\* so a write that fails part-way leaves text that json.load rejects.
EmptyFile == [ok |-> TRUE, data |-> EmptyMap, ord |-> <<>>]
CorruptFile == [ok |-> FALSE, data |-> EmptyMap, ord |-> <<>>]
save_to_file(inv, ord, io_ok) ==
  IF io_ok THEN [ok |-> TRUE, data |-> inv, ord |-> ord] ELSE CorruptFile

\* ProductTracker.load_from_file: any failure to read or parse gives {}.
load_from_file(f) == IF f.ok THEN f.data ELSE EmptyMap
LoadedOrder(f) == IF f.ok THEN f.ord ELSE <<>>

\* --------------------------------------------------------------- variables
VARIABLES
  sched,         \* periodic_task: "round" (top of the loop), "gather", "dead" (the process has exited)
  first_run,     \* periodic_task's first_run
  monitor_urls,  \* periodic_task's monitor_urls
  inventory,     \* product_tracker.inventory: key -> record
  order,         \* the insertion order of inventory's keys
  file,          \* products.json
  task,          \* the coroutines of the current round, one per listed URL
  page,          \* per URL, the page the site served at the latest parsed fetch
  active,        \* the chat messages that still show a product as on sale
  nextId,        \* the next message id Telegram hands out
  ev,            \* what the latest step did: the channel call made, the store written
  settled,       \* per URL: a poll has processed page[url] to its return, and the
                 \* store has not been written since
  unsent,        \* the keys whose announcement was due and timed out in every chat,
                 \* the page unchanged and nothing sent for them since
  unedited,      \* the message ids whose edit was answered by an error other than
                 \* "not modified" and "invalid", and not edited since
  seen           \* per key, the price and features of the latest page that showed
                 \* it in stock

vars == <<sched, first_run, monitor_urls, inventory, order, file, task, page,
          active, nextId, ev, settled, unsent,
          unedited, seen>>

NoKey == <<"", "">>

\* build_product_message: the header line, the configuration and price lines and
\* the purchase link (struck through when out of stock). prefix "" is None.
build_product_message(name, price, features, full_link, out_of_stock, prefix) ==
  [header |-> IF prefix # "" /\ ~out_of_stock THEN prefix
              ELSE IF out_of_stock THEN "Delisted" ELSE "Plain",
   name |-> name, price |-> price, features |-> features,
   link |-> full_link, struck |-> out_of_stock]
NoMessage ==
  [header |-> "", name |-> "", price |-> "", features |-> "",
   link |-> <<>>, struck |-> FALSE]

\* A coroutine slot. pc is the await the coroutine is suspended at:
\*   "fetch"       session.get / response.text (line 257, 272)
\*   "send"        bot.send_message to TELEGRAM_CHAT_IDS[ci] (line 150)
\*   "sent"        the sleep after the last chat (line 165)
\*   "edit"        bot.edit_message_text for Head(eitems) (line 177)
\*   "edited"      the sleep after the last item (line 203)
\*   "edit_x"      as "edit", the dict iterated having lost an item meanwhile
\*   "edit_popped" the sleep (line 203) before a `for` step over a dict that lost an item
\*   "raised"      the frame that raised; "done" returned; "idle" no coroutine
IdleTask ==
  [pc |-> "idle", url |-> "", notify |-> FALSE, retries |-> 0, result |-> "",
   obs |-> NoPage, key |-> NoKey, ex |-> NoRec, message |-> NoMessage,
   ci |-> 0, sretries |-> 0, mids |-> EmptyMap,
   ctx |-> "", eitems |-> <<>>, todo |-> <<>>, cfail |-> "none",
   \* the page was served to this poll as to the poll before it, the store untouched between
   rerun |-> FALSE,
   \* line 334: existing_product is not None
   known |-> FALSE,
   \* the chats bot.edit_message_text was called for in this edit_or_skip_message
   tried |-> {}]

\* fetch_and_parse_products(url, send_notifications=..., semaphore=...) not yet started.
NewTask(url, send_notifications) ==
  [IdleTask EXCEPT !.pc = "fetch", !.url = url, !.notify = send_notifications]

\* A return of fetch_and_parse_products; the locals are gone, the summary stays.
Finished(t, result) ==
  [IdleTask EXCEPT !.pc = "done", !.url = t.url, !.notify = t.notify,
                   !.result = result, !.obs = t.obs, !.cfail = t.cfail,
                   !.rerun = t.rerun]

\* name, price and features as fetch_and_parse_products derives them from the page.
ObsName(url, p) == IF p.kind = "oos" THEN OosName(url) ELSE p.name
ObsPrice(p) == IF p.kind = "oos" THEN PriceUnknown ELSE p.price
ObsFeatures(p) == IF p.kind = "oos" THEN FeaturesUnknown ELSE p.features
ObsKey(t) == make_product_key(t.url, ObsName(t.url, t.obs))

\* The items of a message_ids dict in dict order: the order the chats were sent to.
RECURSIVE ItemsFrom(_, _)
ItemsFrom(chats, ids) ==
  IF chats = <<>> THEN <<>>
  ELSE IF Head(chats) \in DOMAIN ids
       THEN <<<<Head(chats), ids[Head(chats)]>>>> \o ItemsFrom(Tail(chats), ids)
       ELSE ItemsFrom(Tail(chats), ids)
ItemsOf(ids) == ItemsFrom(TELEGRAM_CHAT_IDS, ids)

\* The sweep loop of fetch_and_parse_products (lines 362-379), run from the
\* coroutine's position until it returns or suspends in edit_or_skip_message.
\* st = [inv, ord, wrote, t]: the store, whether it was written, the coroutine.
RECURSIVE Sweep(_)
Sweep(st) ==
  LET t == st.t IN
  IF t.todo = <<>> THEN [st EXCEPT !.t = Finished(t, "processed")]
  ELSE
    LET k == Head(t.todo)
        rest == Tail(t.todo)
        ex == get_product(st.inv, k)
    IN
    IF k[1] = t.url /\ k # ObsKey(t) /\ ~ex.out_of_stock
    THEN IF t.notify /\ Truthy(ex.message_ids)
         THEN [st EXCEPT !.t = [t EXCEPT !.pc = "edit", !.ctx = "sweep", !.key = k,
                                         !.ex = ex, !.eitems = ItemsOf(ex.message_ids),
                                         !.tried = {},
                                         !.message = build_product_message(
                                            k[2], ex.price, ex.features,
                                            FullLink(t.url), TRUE, ""),
                                         !.todo = rest]]
         ELSE Sweep([inv |-> update_product(st.inv, k, ex.price, ex.features,
                                            FullLink(t.url), TRUE, ex.message_ids),
                     ord |-> st.ord, wrote |-> TRUE,
                     t |-> [t EXCEPT !.todo = rest]])
    ELSE Sweep([st EXCEPT !.t = [t EXCEPT !.todo = rest]])

\* `for key in list(product_tracker.inventory.keys())`: the snapshot of the keys.
StartSweep(st) ==
  Sweep([st EXCEPT !.t = [st.t EXCEPT !.pc = "sweep", !.ctx = "", !.key = NoKey,
                                      !.ex = NoRec, !.message = NoMessage, !.ci = 0,
                                      !.sretries = 0, !.mids = EmptyMap,
                                      !.eitems = <<>>, !.todo = st.ord]])

\* update_product called from the poll, then on to the sweep.
WriteThenSweep(st, key, price, features, out_of_stock, message_ids) ==
  StartSweep([inv |-> update_product(st.inv, key, price, features,
                                     FullLink(st.t.url), out_of_stock, message_ids),
              ord |-> KeyOrder(st.ord, st.inv, key),
              wrote |-> TRUE, t |-> st.t])

\* The restock test with the flag read the wrong way round.
IsRestockNegated(ex) == ex # NoRec /\ ~ex.out_of_stock

\* Line 337: `existing_product and existing_product.get('out_of_stock')`.
IsRestock(ex) == ex # NoRec /\ ex.out_of_stock

\* The change test with the stored features compared to the observed price.
IsChangedCrossed(ex, price, features) ==
  ex = NoRec \/ ex.price # price \/ ex.features # price

\* Line 340: no record, or another price text, or another feature text.
IsChanged(ex, price, features) ==
  ex = NoRec \/ ex.price # price \/ ex.features # features

\* The delist test that leaves the stored flag out.
IsDelistAny(ex) == ex # NoRec

\* Line 353: `existing_product and not existing_product.get('out_of_stock')`.
IsDelist(ex) == ex # NoRec /\ ~ex.out_of_stock

\* Lines 332-360: the decision for the observed product, run to the next await.
Reconcile(st) ==
  LET t == st.t
      name == ObsName(t.url, t.obs)
      price == ObsPrice(t.obs)
      features == ObsFeatures(t.obs)
      key == make_product_key(t.url, name)
      ex == get_product(st.inv, key)
      \* The two in-stock branches build the message and send it, or only store.
      Announce(prefix) ==
        IF t.notify
        THEN [st EXCEPT !.t = [t EXCEPT !.pc = "send", !.key = key, !.ex = ex,
                                        !.message = build_product_message(
                                           name, price, features, FullLink(t.url),
                                           FALSE, prefix),
                                        !.ci = 1, !.sretries = 0, !.mids = EmptyMap]]
        ELSE WriteThenSweep(st, key, price, features, FALSE, None)
  IN
  IF t.obs.kind = "stock"
  THEN IF IsRestock(ex) THEN Announce("Restock")
       ELSE IF IsChanged(ex, price, features)
            THEN Announce("NewListing")
            ELSE [st EXCEPT !.t = Finished(t, "unchanged")]
  ELSE IF IsDelist(ex)
       THEN IF t.notify /\ Truthy(ex.message_ids)
            THEN [st EXCEPT !.t = [t EXCEPT !.pc = "edit", !.ctx = "main", !.key = key,
                                            !.ex = ex, !.tried = {},
                                            !.eitems = ItemsOf(ex.message_ids),
                                            !.message = build_product_message(
                                               name, ex.price, ex.features,
                                               FullLink(t.url), TRUE, "")]]
            ELSE WriteThenSweep(st, key, ex.price, ex.features, TRUE, ex.message_ids)
       ELSE IF ex = NoRec
            THEN WriteThenSweep(st, key, price, features, TRUE, None)
            ELSE StartSweep(st)

\* ------------------------------------------------------------------ actions
NoEvent == [call |-> "none", wrote |-> FALSE]

\* The ids of ids that some record of inv still holds as a handle.
StillHeld(ids, inv) ==
  {id \in ids : \E k \in DOMAIN inv :
                  /\ Truthy(inv[k].message_ids)
                  /\ \E c \in DOMAIN inv[k].message_ids : inv[k].message_ids[c] = id}

\* The stretch of coroutine i ends in st: the store, the file (save_to_file
\* after every update_product; io_ok is whether the write went through).
Commit(i, st, io_ok, call) ==
  /\ inventory' = st.inv
  /\ order' = st.ord
  /\ file' = IF st.wrote THEN save_to_file(st.inv, st.ord, io_ok) ELSE file
  /\ task' = [task EXCEPT ![i] = st.t]
  /\ ev' = [call |-> call, wrote |-> st.wrote]
  /\ unedited' = StillHeld(unedited, st.inv)
  /\ settled' = [settled EXCEPT ![st.t.url] =
                   IF st.t.pc = "done" /\ st.t.result # "nocart" THEN TRUE
                   ELSE IF st.wrote \/ page'[st.t.url] # page[st.t.url] THEN FALSE
                   ELSE @]

Here(i) == [inv |-> inventory, ord |-> order, wrote |-> FALSE, t |-> task[i]]

\* Lines 258-286: a 400/401/403/404 status, the redirect to cart.php, an empty
\* title, a maintenance title or a title without "Bandwagon": return.
FetchSkip(i) ==
  /\ sched = "gather" /\ task[i].pc = "fetch"
  /\ task' = [task EXCEPT ![i] = Finished(task[i], "skip")]
  /\ ev' = NoEvent
  /\ UNCHANGED <<seen, sched, first_run, monitor_urls, inventory, order, file, page,
                 active, nextId, settled, unsent, unedited>>

\* The poll given up at MAX_RETRIES running on to the sweep, nothing observed.
FetchErrorSweeps(i) ==
  /\ sched = "gather" /\ task[i].pc = "fetch"
  /\ LET st == StartSweep(Here(i)) IN
     \E io_ok \in BOOLEAN :
       Commit(i, [st EXCEPT !.t = IF st.t.pc = "done"
                                   THEN [st.t EXCEPT !.result = "failed"]
                                   ELSE st.t],
              io_ok, "none")
  /\ UNCHANGED <<seen, sched, first_run, monitor_urls, page, active, nextId, unsent>>

\* Lines 288-294: a 503 or a network error; retry, or give up at MAX_RETRIES.
FetchError(i) ==
  /\ sched = "gather" /\ task[i].pc = "fetch"
  /\ task' = [task EXCEPT ![i] =
                IF task[i].retries + 1 = MAX_RETRIES
                THEN Finished(task[i], "failed")
                ELSE [task[i] EXCEPT !.retries = @ + 1]]
  /\ ev' = NoEvent
  /\ UNCHANGED <<seen, sched, first_run, monitor_urls, inventory, order, file, page,
                 active, nextId, settled, unsent, unedited>>

\* Lines 272-360 and the sweep: the site serves page p, the poll parses it and
\* runs to its first channel call or to its return.
FetchPage(i, p) ==
  /\ sched = "gather" /\ task[i].pc = "fetch"
  /\ page' = IF p.kind = "nocart" THEN page ELSE [page EXCEPT ![task[i].url] = p]
  /\ unsent' = IF page'[task[i].url] = page[task[i].url] THEN unsent
               ELSE {k \in unsent : k[1] # task[i].url}
  /\ LET t == [task[i] EXCEPT !.obs = p,
                               !.known = p.kind # "nocart" /\
                                  make_product_key(task[i].url, ObsName(task[i].url, p))
                                     \in DOMAIN inventory,
                               !.rerun = settled[task[i].url] /\ p = page[task[i].url]]
         st == [Here(i) EXCEPT !.t = t]
     IN \E io_ok \in BOOLEAN :
          IF p.kind = "nocart"
          THEN Commit(i, [st EXCEPT !.t = Finished(t, "nocart")], io_ok, "none")
          ELSE Commit(i, Reconcile(st), io_ok, "none")
  /\ seen' = IF p.kind = "stock"
             THEN LET key == make_product_key(task[i].url, p.name) IN
                  [k \in DOMAIN seen \cup {key} |->
                     IF k = key THEN [price |-> p.price, features |-> p.features]
                     ELSE seen[k]]
             ELSE seen
  /\ UNCHANGED <<sched, first_run, monitor_urls, active, nextId>>

\* send_telegram_message, lines 146-165: after this chat's loop, the next chat.
NextChat(t) ==
  IF t.ci < Len(TELEGRAM_CHAT_IDS)
  THEN [t EXCEPT !.ci = @ + 1, !.sretries = 0]
  ELSE [t EXCEPT !.pc = "sent", !.ci = 0, !.sretries = 0]

\* bot.send_message answers: "ok" (a message id), "timeout" (TimedOut), "error".
SendAttempt(i, outcome) ==
  /\ sched = "gather" /\ task[i].pc = "send"
  /\ LET t == task[i]
         chat == TELEGRAM_CHAT_IDS[t.ci]
     IN
     CASE outcome = "ok" ->
            /\ nextId <= MaxMsg
            /\ active' = active \cup {[id |-> nextId, key |-> t.key, chan |-> chat]}
            /\ nextId' = nextId + 1
            /\ task' = [task EXCEPT ![i] =
                          NextChat([t EXCEPT !.mids =
                             [c \in DOMAIN t.mids \cup {chat} |->
                                IF c = chat THEN nextId ELSE t.mids[c]]])]
       [] outcome = "timeout" ->
            /\ task' = [task EXCEPT ![i] =
                          IF t.sretries + 1 < MAX_RETRIES
                          THEN [t EXCEPT !.sretries = @ + 1,
                                         !.cfail = IF @ = "hard" THEN @ ELSE "timeout"]
                          ELSE NextChat([t EXCEPT !.cfail =
                                           IF @ = "hard" THEN @ ELSE "timeout"])]
            /\ UNCHANGED <<active, nextId>>
       [] OTHER ->
            /\ task' = [task EXCEPT ![i] = NextChat([t EXCEPT !.cfail = "hard"])]
            /\ UNCHANGED <<active, nextId>>
  /\ unsent' = IF outcome = "ok" THEN unsent \ {task[i].key} ELSE unsent
  /\ UNCHANGED unedited
  /\ ev' = [call |-> "send", wrote |-> FALSE]
  /\ UNCHANGED <<seen, sched, first_run, monitor_urls, inventory, order, file, page, settled>>

\* Lines 166 and 347-348: `return message_ids if message_ids else None`, then
\* update_product with what was observed, then the sweep.
SendReturn(i) ==
  /\ sched = "gather" /\ task[i].pc = "sent"
  /\ LET t == task[i]
         message_ids == IF t.mids = EmptyMap THEN None ELSE t.mids
     IN \E io_ok \in BOOLEAN :
          Commit(i, WriteThenSweep(Here(i), t.key, ObsPrice(t.obs),
                                   ObsFeatures(t.obs), FALSE, message_ids),
                 io_ok, "none")
  /\ unsent' = IF task[i].mids = EmptyMap /\ task[i].cfail = "timeout"
               THEN unsent \cup {task[i].key} ELSE unsent
  /\ UNCHANGED <<seen, sched, first_run, monitor_urls, page, active, nextId>>

\* edit_or_skip_message, lines 184-198: "Message_id_invalid". The item is popped
\* from the dict being iterated, which is the stored record's own message_ids
\* and that of every coroutine holding the same dict (message ids are unique, so
\* equal non-empty dicts are one object), and the record is stored again.
PopAlias(ids, M, popped) == IF ids = M /\ M # popped THEN popped ELSE ids

\* bot.edit_message_text answers: "ok", "unchanged" ("Message is not modified"),
\* "invalid" ("Message_id_invalid"), "error" (any other exception).
EditAttempt(i, outcome) ==
  /\ sched = "gather" /\ task[i].pc \in {"edit", "edit_x"}
  /\ LET chat == Head(task[i].eitems)[1]
         message_id == Head(task[i].eitems)[2]
         t == [task[i] EXCEPT !.tried = @ \cup {chat}]
         shown == {m \in active : m.id = message_id}
         \* the await sleep(0.5), then the next `for` step
         next == IF t.pc = "edit_x" THEN [t EXCEPT !.pc = "edit_popped"]
                 ELSE IF Len(t.eitems) = 1 THEN [t EXCEPT !.pc = "edited"]
                 ELSE [t EXCEPT !.eitems = Tail(@)]
     IN
     CASE outcome = "ok" ->
            /\ active' = active \ shown
            /\ task' = [task EXCEPT ![i] = next]
            /\ ev' = [call |-> "edit", wrote |-> FALSE]
            /\ UNCHANGED <<inventory, order, file, settled>>
       [] outcome = "unchanged" ->
            /\ shown = {}
            /\ task' = [task EXCEPT ![i] = next]
            /\ ev' = [call |-> "edit", wrote |-> FALSE]
            /\ UNCHANGED <<inventory, order, file, active, settled>>
       [] outcome = "invalid" ->
            LET M == t.ex.message_ids
                popped == Restrict(M, DOMAIN M \ {chat})
                inv1 == [k \in DOMAIN inventory |->
                           [inventory[k] EXCEPT
                              !.message_ids = PopAlias(@, M, popped)]]
                inv2 == update_product(inv1, t.key, t.ex.price, t.ex.features,
                                       t.ex.link, t.ex.out_of_stock, popped)
            IN
            /\ active' = active \ shown
            /\ inventory' = inv2
            /\ \E io_ok \in BOOLEAN : file' = save_to_file(inv2, order, io_ok)
            /\ task' = [u \in Tasks |->
                 IF u = i
                 THEN [t EXCEPT !.pc = "edit_popped", !.ex.message_ids = popped,
                                !.cfail = "hard"]
                 ELSE IF task[u].ex # NoRec /\ task[u].ex.message_ids = M /\ M # popped
                      THEN [task[u] EXCEPT
                              !.ex.message_ids = popped,
                              !.pc = IF @ = "edit" THEN "edit_x"
                                     ELSE IF @ = "edited" THEN "edit_popped" ELSE @]
                      ELSE task[u]]
            /\ ev' = [call |-> "edit", wrote |-> TRUE]
            /\ settled' = [settled EXCEPT ![t.url] = FALSE]
            /\ UNCHANGED order
       [] OTHER ->
            /\ task' = [task EXCEPT ![i] = [next EXCEPT !.cfail = "hard"]]
            /\ ev' = [call |-> "edit", wrote |-> FALSE]
            /\ UNCHANGED <<inventory, order, file, active, settled>>
  /\ unedited' = IF outcome \in {"ok", "invalid"}
                 THEN unedited \ {Head(task[i].eitems)[2]}
                 ELSE IF outcome = "error"
                      THEN unedited \cup {Head(task[i].eitems)[2]}
                      ELSE unedited
  /\ UNCHANGED <<seen, sched, first_run, monitor_urls, page, nextId, unsent>>

\* edit_or_skip_message returned: line 358 (the observed product) or lines
\* 372-379 (a swept product), then the rest of the sweep.
EditReturn(i) ==
  /\ sched = "gather" /\ task[i].pc = "edited"
  /\ LET t == task[i] IN
     \E io_ok \in BOOLEAN :
       IF t.ctx = "main"
       THEN Commit(i, WriteThenSweep(Here(i), t.key, t.ex.price, t.ex.features,
                                     TRUE, t.ex.message_ids),
                   io_ok, "none")
       ELSE Commit(i, Sweep([inv |-> update_product(inventory, t.key, t.ex.price,
                                        t.ex.features, FullLink(t.url), TRUE,
                                        t.ex.message_ids),
                             ord |-> order, wrote |-> TRUE, t |-> t]),
                   io_ok, "none")
  /\ UNCHANGED <<seen, sched, first_run, monitor_urls, page, active, nextId, unsent>>

\* Line 175 after a pop: "RuntimeError: dictionary changed size during
\* iteration", raised by the `for` statement, outside the try. It leaves
\* fetch_and_parse_products, asyncio.gather, periodic_task and asyncio.run.
Raise(i) ==
  /\ sched = "gather" /\ task[i].pc = "edit_popped"
  /\ task' = [task EXCEPT ![i].pc = "raised"]
  /\ sched' = "dead"
  /\ ev' = NoEvent
  /\ settled' = [s \in Sources |-> FALSE]
  /\ UNCHANGED <<seen, first_run, monitor_urls, inventory, order, file, page, active,
                 nextId, unsent, unedited>>

\* Notifications enabled from the first round on.
SendNotificationsAlways(first) == TRUE

\* Lines 403-408: send_notifications is False in the first round, True after it.
SendNotifications(first) == ~first

\* periodic_task, lines 391-411: reload the config if it changed (urls is what
\* load_config gives, or the list kept), one coroutine per URL, gather.
LaunchRound(urls) ==
  /\ sched = "round"
  /\ monitor_urls' = urls
  /\ task' = [i \in Tasks |->
                IF i <= Len(urls) THEN NewTask(urls[i], SendNotifications(first_run))
                ELSE IdleTask]
  /\ sched' = "gather"
  /\ ev' = NoEvent
  /\ UNCHANGED <<seen, first_run, inventory, order, file, page, active, nextId, settled,
                 unsent, unedited>>

\* Lines 411-414: gather returned, first_run = False, sleep(60).
RoundEnd ==
  /\ sched = "gather"
  /\ \A i \in Tasks : task[i].pc \in {"idle", "done"}
  /\ first_run' = FALSE
  /\ task' = [i \in Tasks |-> IdleTask]
  /\ sched' = "round"
  /\ ev' = NoEvent
  /\ UNCHANGED <<seen, monitor_urls, inventory, order, file, page, active, nextId, settled,
                 unsent, unedited>>

\* The program is started again: ProductTracker() loads products.json,
\* periodic_task loads the config and begins with first_run = True.
Restart(urls) ==
  /\ sched = "dead"
  /\ inventory' = load_from_file(file)
  /\ order' = LoadedOrder(file)
  /\ monitor_urls' = urls
  /\ first_run' = TRUE
  /\ task' = [i \in Tasks |-> IdleTask]
  /\ sched' = "round"
  /\ ev' = NoEvent
  /\ settled' = [s \in Sources |-> FALSE]
  /\ unedited' = StillHeld(unedited, load_from_file(file))
  /\ UNCHANGED <<seen, file, page, active, nextId, unsent>>

Init ==
  /\ sched = "round"
  /\ first_run = TRUE
  /\ monitor_urls \in ConfigLists
  /\ inventory = EmptyMap
  /\ order = <<>>
  /\ file = EmptyFile
  /\ task = [i \in Tasks |-> IdleTask]
  /\ page = [s \in Sources |-> NoPage]
  /\ active = {}
  /\ nextId = 1
  /\ ev = NoEvent
  /\ settled = [s \in Sources |-> FALSE]
  /\ unsent = {}
  /\ unedited = {}
  /\ seen = EmptyMap

Next ==
  \/ \E urls \in ConfigLists : LaunchRound(urls)
  \/ RoundEnd
  \/ \E urls \in ConfigLists : Restart(urls)
  \/ \E i \in Tasks : FetchSkip(i)
  \/ \E i \in Tasks : FetchError(i)
  \/ \E i \in Tasks : \E p \in Pages(task[i].url) : FetchPage(i, p)
  \/ \E i \in Tasks : \E outcome \in {"ok", "timeout", "error"} : SendAttempt(i, outcome)
  \/ \E i \in Tasks : SendReturn(i)
  \/ \E i \in Tasks : \E outcome \in {"ok", "unchanged", "invalid", "error"} :
        EditAttempt(i, outcome)
  \/ \E i \in Tasks : EditReturn(i)
  \/ \E i \in Tasks : Raise(i)

Spec == Init /\ [][Next]_vars

\* ------------------------------------------------ a URL listed twice
\* The same program with config.json listing u1 twice: two coroutines poll u1
\* in every round. The site shows X in stock or nothing in stock, a send
\* succeeds or is rejected, an edit succeeds.
DupPages == {OosPage, [kind |-> "stock", name |-> "X", price |-> "A", features |-> "F"]}

InitDup ==
  /\ sched = "round"
  /\ first_run = TRUE
  /\ monitor_urls \in DupLists
  /\ inventory = EmptyMap
  /\ order = <<>>
  /\ file = EmptyFile
  /\ task = [i \in Tasks |-> IdleTask]
  /\ page = [s \in Sources |-> NoPage]
  /\ active = {}
  /\ nextId = 1
  /\ ev = NoEvent
  /\ settled = [s \in Sources |-> FALSE]
  /\ unsent = {}
  /\ unedited = {}
  /\ seen = EmptyMap

NextDup ==
  \/ \E urls \in DupLists : LaunchRound(urls)
  \/ RoundEnd
  \/ \E i \in Tasks : \E p \in DupPages : FetchPage(i, p)
  \/ \E i \in Tasks : \E outcome \in {"ok", "error"} : SendAttempt(i, outcome)
  \/ \E i \in Tasks : SendReturn(i)
  \/ \E i \in Tasks : EditAttempt(i, "ok")
  \/ \E i \in Tasks : EditReturn(i)

SpecDup == InitDup /\ [][NextDup]_vars

\* -------------------------------------------------------------- properties

\* C1. Idempotence of reconciliation: when a poll has processed an observation
\* to its return and the store has not been written since, a second poll that
\* is served the same page returns at once: it makes no channel call, no
\* message becomes or stops being active, and the store and the state file
\* are left as they are. This holds for every stored record (or none) and
\* every observation, the unchanged in-stock observation among them.
C1_Idempotent ==
  [][\A i \in Tasks :
       (task[i].pc = "fetch" /\ task'[i].rerun)
       => /\ task'[i].pc = "done"
          /\ ev'.call = "none" /\ ~ev'.wrote
          /\ inventory' = inventory /\ order' = order /\ file' = file
          /\ active' = active /\ nextId' = nextId]_vars

\* A second poll of an unchanged in-stock product whose record holds the
\* handles of the messages sent for it has returned.
C1_Witness ==
  \E i \in Tasks :
    /\ task[i].pc = "done" /\ task[i].rerun /\ task[i].notify
    /\ task[i].obs.kind = "stock" /\ task[i].result = "unchanged"
    /\ LET ex == get_product(inventory, ObsKey(task[i])) IN
         ex # NoRec /\ ~ex.out_of_stock /\ Truthy(ex.message_ids)
            /\ ex.price = task[i].obs.price /\ ex.features = task[i].obs.features

\* C2. Restock: in a round with notifications enabled, an in-stock observation
\* of a key whose stored record has out_of_stock true starts a message headed
\* Restock (it is not announced as a new listing and is not skipped), the
\* stored price and features being equal to the observed ones or not; and the
\* record written when the send returns has out_of_stock false.
C2_Restock ==
  [][\A i \in Tasks :
       /\ (/\ task[i].pc = "fetch" /\ task[i].notify
           /\ task'[i].obs.kind = "stock"
           /\ LET ex == get_product(inventory, ObsKey(task'[i])) IN
                ex # NoRec /\ ex.out_of_stock)
          => /\ task'[i].pc = "send"
             /\ task'[i].message.header = "Restock"
             /\ task'[i].key = ObsKey(task'[i])
       /\ (/\ task[i].pc = "sent" /\ task[i].message.header = "Restock"
           /\ task'[i].pc # "sent")
          => /\ task[i].key \in DOMAIN inventory'
             /\ ~inventory'[task[i].key].out_of_stock]_vars

\* C3. Delist with a stale handle: with notifications enabled, when the edit
\* made for an observed out-of-stock product whose in-stock record holds a
\* handle is answered "Message_id_invalid", the stored record has lost the
\* entry of that chat, the poll goes on to its return (it does not end in an
\* exception), and the record the poll leaves has out_of_stock true.
C3_DelistStaleHandle ==
  \A i \in Tasks :
    (task[i].ctx = "main" /\ task[i].pc \in {"edit_popped", "raised"})
    => LET r == get_product(inventory, task[i].key) IN
       /\ r # NoRec
       /\ r.message_ids = None \/ Head(task[i].eitems)[1] \notin DOMAIN r.message_ids
       /\ task[i].pc # "raised"
       /\ task[i].pc = "raised" => r.out_of_stock

\* C4. Sweep: when a poll that fetched and parsed its page returns, every
\* stored key of the polled source other than the observed key has
\* out_of_stock true, the observed product's record changed or not.
C4_Sweep ==
  [][\A i \in Tasks :
       (/\ task[i].pc # "done" /\ task'[i].pc = "done"
        /\ task'[i].result \in {"unchanged", "processed"})
       => \A k \in DOMAIN inventory' :
            (k[1] = task'[i].url /\ k # ObsKey(task'[i]))
            => inventory'[k].out_of_stock]_vars

\* C5. First observation already out of stock: a key without a record that is
\* observed out of stock gets a record with out_of_stock true and the
\* placeholder price and features, and no channel call is made for it; and
\* no later poll that observes a key whose record was created so ends in an
\* exception.
C5_FirstSeenOutOfStock ==
  [][\A i \in Tasks :
       /\ (/\ task[i].pc = "fetch" /\ task'[i].obs.kind = "oos"
           /\ ObsKey(task'[i]) \notin DOMAIN inventory)
          => /\ ObsKey(task'[i]) \in DOMAIN inventory'
             /\ LET r == inventory'[ObsKey(task'[i])] IN
                  /\ r.out_of_stock
                  /\ r.price = PriceUnknown /\ r.features = FeaturesUnknown
                  /\ r.message_ids = None
             /\ ev'.call = "none" /\ active' = active
             /\ task'[i].pc \in {"send", "edit"} => task'[i].key # ObsKey(task'[i])
       /\ (/\ task[i].pc # "raised" /\ task'[i].pc = "raised"
           /\ task[i].known)
          => LET r == get_product(inventory, ObsKey(task[i])) IN
             ~(r # NoRec /\ r.price = PriceUnknown /\ r.features = FeaturesUnknown)]_vars

\* C6. At most one active message per product per channel: for each product
\* key and each chat, at most one message sent for the product still shows it
\* as on sale (it was sent, and was neither edited to the delisted text nor
\* reported gone).
C6_AtMostOneActive ==
  \A m1, m2 \in active :
    (m1.key = m2.key /\ m1.chan = m2.chan) => m1 = m2

\* C7. A transient failure only defers a change: when the announcement of an
\* in-stock product timed out in every chat and the page stays as it is, a
\* later poll with notifications enabled that parses the page and returns
\* without any failed call has not left the announcement unsent. While a send
\* can still succeed the product is announced by one message per chat.
C7_TransientDefers ==
  \A i \in Tasks :
    (/\ task[i].pc = "done" /\ task[i].notify
     /\ task[i].obs.kind = "stock"
     /\ task[i].result \in {"unchanged", "processed"}
     /\ task[i].cfail = "none")
    => ObsKey(task[i]) \notin unsent

\* C8. First-round suppression: while the first round after the start of the
\* process runs, no step sends or edits a message, no poll has notifications
\* enabled or waits in a channel call, and the messages shown stay as they
\* are; and the first round is over only when each of its polls has returned.
C8_FirstRoundSilent ==
  [][/\ first_run'
        => /\ ev'.call = "none"
           /\ active' = active /\ nextId' = nextId
           /\ \A i \in Tasks :
                /\ ~task'[i].notify
                /\ task'[i].pc \in {"idle", "fetch", "done"}
     /\ (first_run /\ ~first_run')
        => \A i \in Tasks : task[i].pc \in {"idle", "done"}]_vars

\* In the first round after a restart a poll has marked a product out of
\* stock whose message is still shown as on sale: the edit was left out.
C8_Witness ==
  /\ first_run /\ ev.wrote
  /\ \E i \in Tasks :
       /\ task[i].pc = "done" /\ task[i].result = "processed"
       /\ task[i].obs.kind = "oos"
  /\ \E m \in active :
       /\ m.key \in DOMAIN inventory
       /\ inventory[m.key].out_of_stock
       /\ Truthy(inventory[m.key].message_ids)
       /\ m.chan \in DOMAIN inventory[m.key].message_ids
       /\ inventory[m.key].message_ids[m.chan] = m.id

\* C9. Handles after a new message: when send_telegram_message has returned
\* and the record is written, its message_ids holds exactly the chats whose
\* send succeeded in this call, each with the id that send returned, whatever
\* the previous record held; and a failed send to one chat is followed by the
\* sends to the chats after it.
C9_HandlesAfterSend ==
  [][\A i \in Tasks :
       /\ (task[i].pc = "sent" /\ task'[i].pc # "sent")
          => /\ task[i].key \in DOMAIN inventory'
             /\ LET h == inventory'[task[i].key].message_ids IN
                  (IF h = None THEN EmptyMap ELSE h) = task[i].mids
       /\ (/\ task[i].pc = "send" /\ task[i].ci < Len(TELEGRAM_CHAT_IDS)
           /\ task'[i] # task[i])
          => task'[i].pc = "send"]_vars

\* C10. Durable writes are all-or-nothing: every step either leaves the state
\* file as it is or leaves in it the complete inventory of that moment, so
\* that a load never finds less than the last write that went through.
C10_AtomicWrite ==
  [][file' = file \/ (file'.ok /\ file'.data = inventory')]_vars

\* C11. Error isolation: whatever a channel call is answered (success,
\* unchanged, handle invalid, timeout, rejection), the poll that made it goes
\* on to the remaining chats, to the write of the record and to its return;
\* no step ends a poll in an exception, and no step stops the process, so the
\* scheduler is always at the top of its loop or waiting for the polls.
C11_ErrorIsolation ==
  [][/\ sched' \in {"round", "gather"}
     /\ \A i \in Tasks :
          (/\ task[i].pc \in {"send", "sent", "edit", "edit_x", "edit_popped", "edited"}
           /\ task'[i] # task[i])
          => task'[i].pc \in {"send", "sent", "edit", "edit_x", "edit_popped",
                              "edited", "done"}]_vars

C13_DelistEditsAll ==
  [][\A k \in DOMAIN inventory :
       (/\ sched = "gather" /\ k \in DOMAIN inventory'
        /\ ~inventory[k].out_of_stock /\ inventory'[k].out_of_stock)
       => LET r == inventory[k] IN
          IF r.message_ids # None /\ DOMAIN r.message_ids # {}
          THEN \E i \in Tasks :
                 /\ task[i].pc = "edited" /\ task[i].key = k
                 /\ task[i].tried = DOMAIN r.message_ids
                 /\ task[i].message =
                      build_product_message(k[2], r.price, r.features,
                                            FullLink(k[1]), TRUE, "")
          ELSE /\ ev'.call = "none" /\ active' = active
               /\ \A i \in Tasks : ~(task[i].pc = "edited" /\ task[i].key = k)]_vars

\* C13 amended. The same, for the polls of a round with notifications
\* enabled: a poll of the first round marks the record and calls no edit.
C13_DelistEditsAllNotified ==
  [][\A k \in DOMAIN inventory :
       (/\ sched = "gather" /\ k \in DOMAIN inventory'
        /\ ~inventory[k].out_of_stock /\ inventory'[k].out_of_stock
        /\ \E i \in Tasks : task[i].notify /\ task'[i] # task[i])
       => LET r == inventory[k] IN
          IF r.message_ids # None /\ DOMAIN r.message_ids # {}
          THEN \E i \in Tasks :
                 /\ task[i].pc = "edited" /\ task[i].key = k
                 /\ task[i].tried = DOMAIN r.message_ids
                 /\ task[i].message =
                      build_product_message(k[2], r.price, r.features,
                                            FullLink(k[1]), TRUE, "")
          ELSE /\ ev'.call = "none" /\ active' = active
               /\ \A i \in Tasks : ~(task[i].pc = "edited" /\ task[i].key = k)]_vars

\* A poll with notifications enabled has called the edit for both chats of an
\* in-stock record and is about to mark it out of stock.
C13_Witness ==
  \E i \in Tasks :
    /\ task[i].pc = "edited" /\ task[i].notify
    /\ task[i].key \in DOMAIN inventory
    /\ ~inventory[task[i].key].out_of_stock
    /\ inventory[task[i].key].message_ids # None
    /\ task[i].tried = DOMAIN inventory[task[i].key].message_ids
    /\ task[i].tried = Channels

\* C14. No repeated delist work: while the process runs, a record with
\* out_of_stock true is written only by a poll that observed its key in
\* stock, and no poll waits in or returns from an edit call made for it: the
\* polls that see its product out of stock again or miss it on the page
\* leave it alone.
C14_NoRepeatedDelist ==
  [][\A k \in DOMAIN inventory :
       (sched = "gather" /\ sched' = "gather" /\ inventory[k].out_of_stock)
       => /\ k \in DOMAIN inventory'
          /\ inventory'[k] # inventory[k]
             => \E i \in Tasks : /\ task'[i] # task[i]
                                  /\ task'[i].obs.kind = "stock"
                                  /\ ObsKey(task'[i]) = k
          /\ \A i \in Tasks :
               ~(task[i].pc \in {"edit", "edit_x", "edited"} /\ task[i].key = k)]_vars

\* A poll with notifications enabled has again seen the page out of stock and
\* returned, while a record of its source that holds a handle was already
\* marked out of stock.
C14_Witness ==
  \E i \in Tasks :
    /\ task[i].pc = "done" /\ task[i].notify /\ task[i].rerun
    /\ task[i].obs.kind = "oos" /\ task[i].result = "processed"
    /\ \E k \in DOMAIN inventory :
         /\ k[1] = task[i].url
         /\ inventory[k].out_of_stock
         /\ Truthy(inventory[k].message_ids)

\* C15. A suppressed notification leaves no handles: when a poll with
\* notifications disabled observes in stock a key that is new, changed or
\* restocked, the record it writes holds the observed price and features,
\* out_of_stock false and no message handle, whatever the previous record of
\* the key held.
C15_SuppressedNoHandles ==
  [][\A i \in Tasks :
       (/\ task[i].pc = "fetch" /\ ~task[i].notify
        /\ task'[i].obs.kind = "stock"
        /\ LET ex == get_product(inventory, ObsKey(task'[i])) IN
             \/ ex = NoRec \/ ex.out_of_stock
             \/ ex.price # task'[i].obs.price
             \/ ex.features # task'[i].obs.features)
       => /\ ObsKey(task'[i]) \in DOMAIN inventory'
          /\ LET r == inventory'[ObsKey(task'[i])] IN
               /\ r.price = task'[i].obs.price
               /\ r.features = task'[i].obs.features
               /\ ~r.out_of_stock
               /\ r.message_ids = None \/ DOMAIN r.message_ids = {}]_vars

\* C16. Retry of a failed delist edit: when the edit of a delist failed in a
\* chat with an error other than "not modified" and "invalid", the record
\* keeps the handle, and a later poll with notifications enabled that finds
\* the product still out of stock or missing has called the edit for it
\* again: such a poll does not return, none of its calls having failed,
\* while the message still waits for its edit.
C16_FailedEditRetried ==
  \A i \in Tasks :
    (/\ task[i].pc = "done" /\ task[i].notify
     /\ task[i].result = "processed" /\ task[i].cfail = "none")
    => \A m \in active :
         (/\ m.key[1] = task[i].url
          /\ m.key \in DOMAIN inventory
          /\ inventory[m.key].out_of_stock
          /\ task[i].obs.kind = "oos" \/ ObsKey(task[i]) # m.key)
         => m.id \notin unedited

\* C17. Out-of-stock records keep real signatures: a record with
\* out_of_stock true whose key a page has shown in stock holds the price and
\* features of the latest such page (no poll being in the middle of
\* announcing that key), never the placeholders; a record with out_of_stock
\* true whose key no page has shown in stock holds the placeholders.
C17_RealSignatures ==
  \A k \in DOMAIN inventory :
    (/\ inventory[k].out_of_stock
     /\ \A i \in Tasks : ~(task[i].pc \in {"send", "sent"} /\ task[i].key = k))
    => IF k \in DOMAIN seen
       THEN /\ inventory[k].price = seen[k].price
            /\ inventory[k].features = seen[k].features
       ELSE /\ inventory[k].price = PriceUnknown
            /\ inventory[k].features = FeaturesUnknown

\* C18. No edit from placeholder signatures: no poll is in, or returns from,
\* an edit call made for a record whose stored price and features are the
\* placeholders of a product first seen out of stock, and no delisted text
\* is built from them.
C18_NoEditFromPlaceholders ==
  \A i \in Tasks :
    task[i].pc \in {"edit", "edit_x", "edit_popped", "edited"}
    => /\ ~(task[i].ex.price = PriceUnknown /\ task[i].ex.features = FeaturesUnknown)
       /\ ~(task[i].message.price = PriceUnknown
            /\ task[i].message.features = FeaturesUnknown)
       /\ LET r == get_product(inventory, task[i].key) IN
            r # NoRec /\ ~(r.price = PriceUnknown /\ r.features = FeaturesUnknown)

\* A poll is in the edit call for the key that an out-of-stock page names,
\* the key whose record is created with the placeholders.
C18_Witness ==
  \E i \in Tasks :
    /\ task[i].pc = "edit" /\ task[i].ctx = "main"
    /\ task[i].obs.kind = "oos"
    /\ task[i].key = make_product_key(task[i].url, OosName(task[i].url))
    /\ task[i].message.struck

\* C19. No concurrent reconciliation of one key: for every list of URLs the
\* config can hold, no two polls are at the same time between the read of
\* one key's record and the write of its new record (in a send or an edit
\* made for that key); and the polls of a round are started only when no poll
\* of the round before is still running.
C19_NoConcurrentReconcile ==
  [][/\ \A i, j \in Tasks :
          (/\ i # j
           /\ task'[i].pc \in {"send", "sent", "edit", "edit_x", "edit_popped", "edited"}
           /\ task'[j].pc \in {"send", "sent", "edit", "edit_x", "edit_popped", "edited"})
          => task'[i].key # task'[j].key
     /\ (\E i \in Tasks : task[i].pc # "fetch" /\ task'[i].pc = "fetch")
        => \A j \in Tasks : task[j].pc \in {"idle", "done"}]_vars

\* C20. At most one in-stock record per source: when a poll that fetched and
\* parsed its page returns, every record of the polled source with
\* out_of_stock false is the record of the key that the page showed in stock
\* (so there is at most one, and none after an out-of-stock page).
C20_OneInStockPerSource ==
  [][\A i \in Tasks :
       (/\ task[i].pc # "done" /\ task'[i].pc = "done"
        /\ task'[i].result \in {"unchanged", "processed"})
       => \A k \in DOMAIN inventory' :
            (k[1] = task'[i].url /\ ~inventory'[k].out_of_stock)
            => /\ task'[i].obs.kind = "stock"
               /\ k = ObsKey(task'[i])]_vars

\* The Restock message of a product observed with the price and features its
\* out-of-stock record already held has been sent to a chat.
C2_Witness ==
  \E i \in Tasks :
    /\ task[i].pc = "sent" /\ task[i].message.header = "Restock"
    /\ task[i].mids # EmptyMap
    /\ task[i].ex.out_of_stock
    /\ task[i].ex.price = task[i].obs.price
    /\ task[i].ex.features = task[i].obs.features

====
